---- MODULE Spec2Model ----
(***************************************************************************)
(* A model of off_nitrogens/perturb_angle/perturb_angle.py: the rotation   *)
(* matrix builder, the valence and improper perturbations, and the         *)
(* oemol_perturb wrapper with the module-level driver that calls it.       *)
(*                                                                         *)
(* Floating-point numbers are modelled by exact real numbers of the form   *)
(*     (c1*sqrt(r1) + ... + ck*sqrt(rk)) / d                               *)
(* with squarefree radicands r1..rk, plus the IEEE value NaN.  Every value *)
(* the program computes from integer coordinates and from the angles of    *)
(* Thetas is of this form, so the arithmetic below is exact: rounding is   *)
(* the one thing abstracted away.                                          *)
(***************************************************************************)
EXTENDS Integers, Sequences, FiniteSets, TLC

VARIABLES
    args,     \* the arguments of the call under study
    last,     \* the call of a geometric function made, and its result
    mol,      \* the molecule the driver holds: coords, names, bonds
    pc,       \* the driver's position in its batch of oemol_perturb calls
    ret,      \* what the most recent oemol_perturb call did and returned
    files     \* the output files written so far

vars == <<args, last, mol, pc, ret, files>>

(***************************************************************************)
(* Bounds of the model.                                                    *)
(***************************************************************************)
MaxCoord == 1

(***************************************************************************)
(* Exact numbers.  A number is [d |-> denominator, t |-> terms] where t    *)
(* maps each squarefree radicand to its non-zero integer coefficient; the  *)
(* representation is normalised, so equal numbers are equal records.       *)
(* d = 0 is NaN.                                                           *)
(***************************************************************************)
Abs(a) == IF a < 0 THEN -a ELSE a

RECURSIVE GCD(_, _)
GCD(a, b) == IF b = 0 THEN Abs(a) ELSE GCD(b, a % b)

RECURSIVE GCDSet(_, _)
GCDSet(f, S) ==
    IF S = {} THEN 0
    ELSE LET s == CHOOSE x \in S : TRUE
         IN  GCD(f[s], GCDSet(f, S \ {s}))

RECURSIVE SumF(_, _)
SumF(f, S) ==
    IF S = {} THEN 0
    ELSE LET s == CHOOSE x \in S : TRUE
         IN  f[s] + SumF(f, S \ {s})

NaN == [d |-> 0, t |-> [r \in {} |-> 0]]

IsNaN(x) == x.d = 0

\* The normal form of (sum of f[r]*sqrt(r) over r in S) / d, d > 0.
Norm(d, f, S) ==
    LET nz == {r \in S : f[r] # 0}
        g  == GCD(d, GCDSet(f, nz))
    IN  [d |-> d \div g, t |-> [r \in nz |-> f[r] \div g]]

Rat(p, q) ==
    IF q = 0 THEN NaN
    ELSE LET s == IF q < 0 THEN -1 ELSE 1
         IN  Norm(s * q, [r \in {1} |-> s * p], {1})

I(n) == Rat(n, 1)

\* c * sqrt(r) / d for a squarefree radicand r
Surd(c, r, d) == Norm(d, [x \in {r} |-> c], {r})

Coef(x, r) == IF r \in DOMAIN x.t THEN x.t[r] ELSE 0

IsZero(x) == ~IsNaN(x) /\ DOMAIN x.t = {}

Neg(x) == IF IsNaN(x) THEN NaN ELSE [d |-> x.d, t |-> [r \in DOMAIN x.t |-> -x.t[r]]]

Add(x, y) ==
    IF IsNaN(x) \/ IsNaN(y) THEN NaN
    ELSE LET g == GCD(x.d, y.d)
             L == (x.d \div g) * y.d
             S == DOMAIN x.t \cup DOMAIN y.t
         IN  Norm(L, [r \in S |-> Coef(x, r) * (L \div x.d) + Coef(y, r) * (L \div y.d)], S)

Sub(x, y) == Add(x, Neg(y))

\* sqrt(r1)*sqrt(r2) = GCD(r1,r2) * sqrt(RadMul(r1,r2)) for squarefree r1, r2
RadMul(r1, r2) == LET g == GCD(r1, r2) IN (r1 \div g) * (r2 \div g)

Mul(x, y) ==
    IF IsNaN(x) \/ IsNaN(y) THEN NaN
    ELSE LET S == {RadMul(r1, r2) : r1 \in DOMAIN x.t, r2 \in DOMAIN y.t}
             c(r) == LET P == {r1 \in DOMAIN x.t : RadMul(r, r1) \in DOMAIN y.t}
                     IN  SumF([r1 \in P |-> x.t[r1] * y.t[RadMul(r, r1)]
                                             * GCD(r1, RadMul(r, r1))], P)
         IN  Norm(x.d * y.d, [r \in S |-> c(r)], S)

\* The largest k with k*k <= n, searched upwards from k.
RECURSIVE IntSqrt(_, _)
IntSqrt(n, k) == IF (k + 1) * (k + 1) > n THEN k ELSE IntSqrt(n, k + 1)

\* The largest j <= k with j*j dividing n.
RECURSIVE SquareDivisor(_, _)
SquareDivisor(n, k) == IF n % (k * k) = 0 THEN k ELSE SquareDivisor(n, k - 1)

\* The largest k with k*k dividing n (n > 0): sqrt(n) = k * sqrt(n / k^2).
SquarePart(n) == SquareDivisor(n, IntSqrt(n, 1))

\* math.sqrt of a non-negative rational p/q: sqrt(p*q)/q
Sqrt(x) ==
    IF IsNaN(x) THEN NaN
    ELSE LET p == Coef(x, 1)
             n == p * x.d
             k == SquarePart(n)
         IN  IF p = 0 THEN I(0) ELSE Surd(k, n \div (k * k), x.d)

\* x / y for a divisor y = c*sqrt(r)/d of one term.  A numpy array divided
\* by 0.0 raises nothing: 0/0.0 is nan (with a RuntimeWarning).  The divisor
\* of line 61 is zero only when every component of the axis is zero, so the
\* infinite quotient of a non-zero x by 0.0 does not arise.
DivSurd(x, y) ==
    IF IsNaN(x) \/ IsNaN(y) THEN NaN
    ELSE IF IsZero(y) THEN NaN
    ELSE LET r == CHOOSE q \in DOMAIN y.t : TRUE
             c == y.t[r]
             s == IF c < 0 THEN -1 ELSE 1
         IN  Mul(x, Surd(s * y.d, r, s * c * r))

(***************************************************************************)
(* Vectors and matrices of numbers (numpy arrays of shape (3,) and (3,3)). *)
(***************************************************************************)
Vec(p) == <<I(p[1]), I(p[2]), I(p[3])>>

VSub(u, v) == <<Sub(u[1], v[1]), Sub(u[2], v[2]), Sub(u[3], v[3])>>

\* np.dot of two vectors
Dot(u, v) == Add(Add(Mul(u[1], v[1]), Mul(u[2], v[2])), Mul(u[3], v[3]))

\* np.cross
Cross(u, v) ==
    << Sub(Mul(u[2], v[3]), Mul(u[3], v[2])),
       Sub(Mul(u[3], v[1]), Mul(u[1], v[3])),
       Sub(Mul(u[1], v[2]), Mul(u[2], v[1])) >>

\* np.dot of a matrix and a vector
MatVec(M, v) == <<Dot(M[1], v), Dot(M[2], v), Dot(M[3], v)>>

VecHasNaN(v) == \E i \in 1..3 : IsNaN(v[i])

MatHasNaN(M) == \E i \in 1..3 : VecHasNaN(M[i])

(***************************************************************************)
(* The angles of the model, in degrees, and the exact values of            *)
(* math.cos(np.radians(theta)/2.0) and math.sin(np.radians(theta)/2.0).    *)
(***************************************************************************)
Thetas == {-90, 0, 60, 90, 120, 180}

HalfCos(theta) ==
    CASE theta = 0   -> I(1)
      [] theta = 60  -> Surd(1, 3, 2)
      [] theta = 90  -> Surd(1, 2, 2)
      [] theta = -90 -> Surd(1, 2, 2)
      [] theta = 120 -> Rat(1, 2)
      [] theta = 180 -> I(0)

HalfSin(theta) ==
    CASE theta = 0   -> I(0)
      [] theta = 60  -> Rat(1, 2)
      [] theta = 90  -> Surd(1, 2, 2)
      [] theta = -90 -> Surd(-1, 2, 2)
      [] theta = 120 -> Surd(1, 3, 2)
      [] theta = 180 -> I(1)

(***************************************************************************)
(* rotation_matrix(axis, theta), lines 58-68, one definition per step:     *)
(* each step hands the values it computed to the next as parameters.       *)
(***************************************************************************)
\* lines 66-68: the matrix from the ten products
matrix(aa, bb, cc, dd, bc, ad, ac, ab, bd, cd) ==
    << << Sub(Sub(Add(aa, bb), cc), dd), Mul(I(2), Add(bc, ad)), Mul(I(2), Sub(bd, ac)) >>,
       << Mul(I(2), Sub(bc, ad)), Sub(Sub(Add(aa, cc), bb), dd), Mul(I(2), Add(cd, ab)) >>,
       << Mul(I(2), Add(bd, ac)), Mul(I(2), Sub(cd, ab)), Sub(Sub(Add(aa, dd), bb), cc) >> >>

\* lines 64-65: aa, bb, cc, dd = a*a, ...; bc, ad, ac, ab, bd, cd = b*c, ...
products(a, b, c, d) ==
    matrix(Mul(a, a), Mul(b, b), Mul(c, c), Mul(d, d),
           Mul(b, c), Mul(a, d), Mul(a, c), Mul(a, b), Mul(b, d), Mul(c, d))

\* quaternion with the sign of b, c, d lost: the clockwise rotation
quaternion_clockwise(u, a, sn) ==
    products(a, Mul(u[1], sn), Mul(u[2], sn), Mul(u[3], sn))

\* lines 62-63: a = cos(theta/2); b, c, d = -axis*sin(theta/2)
quaternion(u, a, sn) ==
    products(a, Mul(Neg(u[1]), sn), Mul(Neg(u[2]), sn), Mul(Neg(u[3]), sn))

\* normalized with the division left out
normalized_skipped(axis, nrm) == axis

\* line 61: axis/math.sqrt(np.dot(axis, axis)), given the square root
normalized(axis, nrm) ==
    <<DivSurd(axis[1], nrm), DivSurd(axis[2], nrm), DivSurd(axis[3], nrm)>>

rotation_matrix(axis, theta) ==
    quaternion(normalized(axis, Sqrt(Dot(axis, axis))), HalfCos(theta), HalfSin(theta))

(***************************************************************************)
(* The diagnostic lines a verbose perturbation prints, lines 109-133 and   *)
(* 239-263: the header, the four original positions, the rotated position, *)
(* six improper angles, six valence angles and an empty line.  What is     *)
(* kept of the output is which lines were printed.                         *)
(***************************************************************************)
Diagnostics ==
    << "header", "atom0", "atom1", "atom2", "atom3", "atom3_rot",
       "improper_before_1", "improper_before_2", "improper_before_3",
       "improper_after_1", "improper_after_2", "improper_after_3",
       "valence_before_1", "valence_before_2", "valence_before_3",
       "valence_after_1", "valence_after_2", "valence_after_3", "" >>

(***************************************************************************)
(* calc_improper_angle and calc_valence_angle of calc_improper, called for *)
(* the diagnostics: they compute an angle from the positions they are      *)
(* given, for any positions, and change none of them.  Whether the twelve  *)
(* calls of a verbose perturbation raise:                                  *)
(***************************************************************************)
calc_angles_raise(atom0, atom1, atom2, atom3, atom3_rot) == FALSE

\* rotated with a verbose branch that overwrites the rotated position
rotated_verbose_overwrites(atom0, atom1, atom2, atom3, rot_mat, verbose) ==
    [ raised |-> verbose /\ calc_angles_raise(atom0, atom1, atom2, atom3, atom3),
      atom0 |-> atom0, atom1 |-> atom1, atom2 |-> atom2,
      atom3_rot |-> IF verbose THEN atom3 ELSE MatVec(rot_mat, atom3),
      rot_mat |-> rot_mat,
      printed |-> IF verbose THEN Diagnostics ELSE << >> ]

(***************************************************************************)
(* Lines 107-135 and 237-265, the same in both perturbations: rotate       *)
(* atom3, print the diagnostics if asked, return the tuple.  No statement  *)
(* of these lines raises by itself: a rot_mat of NaN entries is carried by *)
(* np.dot into atom3_rot.                                                  *)
(***************************************************************************)
rotated(atom0, atom1, atom2, atom3, rot_mat, verbose) ==
    [ raised |-> verbose /\ calc_angles_raise(atom0, atom1, atom2, atom3,
                                              MatVec(rot_mat, atom3)),
      atom0 |-> atom0, atom1 |-> atom1, atom2 |-> atom2,
      atom3_rot |-> MatVec(rot_mat, atom3), rot_mat |-> rot_mat,
      printed |-> IF verbose THEN Diagnostics ELSE << >> ]

(***************************************************************************)
(* perturb_valence(atom0, atom1, atom2, atom3, theta, verbose), lines      *)
(* 101-135: the axis is w2 = np.cross(atom2 - atom1, atom2 - atom3).       *)
(***************************************************************************)
perturb_valence(atom0, atom1, atom2, atom3, theta, verbose) ==
    rotated(atom0, atom1, atom2, atom3,
            rotation_matrix(Cross(VSub(atom2, atom1), VSub(atom2, atom3)), theta),
            verbose)

\* perturb_improper about the reversed axis atom1 - atom2
perturb_improper_reversed(atom0, atom1, atom2, atom3, theta, verbose) ==
    rotated(atom0, atom1, atom2, atom3,
            rotation_matrix(VSub(atom1, atom2), theta),
            verbose)

(***************************************************************************)
(* perturb_improper(atom0, atom1, atom2, atom3, theta, verbose), lines     *)
(* 233-265: the axis is v1 = atom2 - atom1.                                *)
(***************************************************************************)
perturb_improper(atom0, atom1, atom2, atom3, theta, verbose) ==
    rotated(atom0, atom1, atom2, atom3,
            rotation_matrix(VSub(atom2, atom1), theta),
            verbose)

(***************************************************************************)
(* The inputs of the geometric functions: integer positions.               *)
(***************************************************************************)
Coords == -MaxCoord..MaxCoord

\* the axes given to rotation_matrix directly
Vec3 == Coords \X Coords \X Coords

\* the positions of the atom to be moved
Moved == (0..MaxCoord) \X (0..MaxCoord) \X (0..MaxCoord)

Centrals == {<<0, 0, 0>>, <<0, 1, 1>>}

Outer1s == {<<1, 0, 0>>, <<-1, 0, 0>>}

Outer2s == {<<1, 0, 0>>, <<0, 1, 0>>}

NoCall == [fn |-> "none"]

RotationArgs == [fn : {"rotation_matrix"}, axis : Vec3, theta : Thetas]

PerturbArgs ==
    [ fn : {"perturb_valence", "perturb_improper"},
      central : Centrals, outer1 : Outer1s, outer2 : Outer2s, moved : Moved,
      theta : Thetas, verbose : BOOLEAN ]

(***************************************************************************)
(* The molecule of the driver, lines 270-275, as far as oemol_perturb      *)
(* reads it: the atoms' positions, names and bonds.  Atoms are identified  *)
(* by their index; the names are what GetName() returns, strings.          *)
(***************************************************************************)
Atoms == 0..3

AtomSeq == <<0, 1, 2, 3>>

Positions == [a \in Atoms |->
                CASE a = 0 -> Vec(<<1, 0, 0>>)
                  [] a = 1 -> Vec(<<0, 0, 1>>)
                  [] a = 2 -> Vec(<<0, 1, 0>>)
                  [] a = 3 -> Vec(<<-1, -1, 0>>)]

\* a molecule built from SMILES has empty atom names; a file may name them
Namings == { [a \in Atoms |-> ""],
             [a \in Atoms |-> CASE a = 0 -> "0" [] a = 1 -> "1"
                                [] a = 2 -> "2" [] a = 3 -> "3"] }

Topologies ==
    { {{0, 1}, {1, 2}, {1, 3}},            \* FNCl with its hydrogen: a star at 1
      {{0, 1}, {1, 2}, {2, 3}},            \* a chain
      {{0, 1}, {1, 2}, {2, 3}, {3, 0}},    \* a ring
      {{0, 1}, {0, 2}, {0, 3}, {1, 2}, {1, 3}, {2, 3}},
      {{0, 1}} }                           \* two bonded atoms, two single atoms

Molecules == [coords : {Positions}, names : Namings, bonds : Topologies]

DriverArgs ==
    {x \in [fn : {"driver"}, central : Atoms, outer : Atoms] : x.central # x.outer}

\* lines 282-301: nine improper perturbations, then nine valence ones, of
\* which the model keeps the angles whose sines and cosines are exact
Batch ==
    << [improper |-> TRUE, theta |-> 0], [improper |-> TRUE, theta |-> 60],
       [improper |-> TRUE, theta |-> 120],
       [improper |-> FALSE, theta |-> 0], [improper |-> FALSE, theta |-> 60],
       [improper |-> FALSE, theta |-> 120] >>

NoReturn == [outcome |-> "none"]

NoMol == [coords |-> << >>]

(***************************************************************************)
(* Python values of different types never compare equal: "3" != 3 is True. *)
(***************************************************************************)
PyStr(s) == [type |-> "str", val |-> s]

PyInt(i) == [type |-> "int", val |-> i]

PyNe(x, y) == x.type # y.type \/ x.val # y.val

(***************************************************************************)
(* oemol_perturb(mol, central_atom, outer_atom, angle_type, theta), lines  *)
(* 164-201.  central_atom and outer_atom are atom indices (integers: they  *)
(* are given to OEHasAtomIdx).                                             *)
(***************************************************************************)
\* center_atom.GetAtoms(): the atoms bonded to the atom, in index order
GetAtoms(m, atom) == SelectSeq(AtomSeq, LAMBDA n : {atom, n} \in m.bonds)

\* lines 184-188: the positions of the neighbours whose name differs from
\* outer_atom
other_atoms(m, central_atom, outer_atom) ==
    SelectSeq(GetAtoms(m, central_atom),
              LAMBDA n : PyNe(PyStr(m.names[n]), PyInt(outer_atom)))

other_coords(m, central_atom, outer_atom) ==
    [i \in 1..Len(other_atoms(m, central_atom, outer_atom)) |->
        m.coords[other_atoms(m, central_atom, outer_atom)[i]]]

\* written without the copy of line 172: the molecule given is changed
written_in_place(m, outer_atom, fn, theta, res) ==
    [ outcome |-> "returned",
      fn |-> fn, outer1 |-> res.atom1, outer2 |-> res.atom2,
      cmol |-> [m EXCEPT !.coords[outer_atom] = res.atom3_rot],
      mol |-> [m EXCEPT !.coords[outer_atom] = res.atom3_rot],
      file |-> <<theta, fn>> ]

\* lines 172 and 192-201: write the new position into the copy cmol, write
\* the file, return the copy; the molecule given is left as it was
written(m, outer_atom, fn, theta, res) ==
    [ outcome |-> "returned",
      fn |-> fn, outer1 |-> res.atom1, outer2 |-> res.atom2,
      cmol |-> [m EXCEPT !.coords[outer_atom] = res.atom3_rot],
      mol |-> m,
      file |-> <<theta, fn>> ]

\* an uncaught IndexError: nothing is called, written or returned
IndexError(m, line) ==
    [ outcome |-> "IndexError", line |-> line, fn |-> "none", mol |-> m ]

\* lines 164-167 and 191: the perturbation chosen by angle_type is called
\* with other_coords[0] and other_coords[1]
perturbed(m, center_coord, move_coord, others, outer_atom, angle_type, theta) ==
    IF Len(others) = 0 THEN IndexError(m, 189)
    ELSE IF Len(others) = 1 THEN IndexError(m, 191)
    ELSE IF angle_type = TRUE
         THEN written(m, outer_atom, "perturb_improper", theta,
                      perturb_improper(center_coord, others[1], others[2],
                                       move_coord, theta, FALSE))
         ELSE written(m, outer_atom, "perturb_valence", theta,
                      perturb_valence(center_coord, others[1], others[2],
                                      move_coord, theta, FALSE))

oemol_perturb(m, central_atom, outer_atom, angle_type, theta) ==
    perturbed(m, m.coords[central_atom], m.coords[outer_atom],
              other_coords(m, central_atom, outer_atom),
              outer_atom, angle_type, theta)

(***************************************************************************)
(* The geometric core: one call of one of the three functions.             *)
(***************************************************************************)
CallRotationMatrix ==
    /\ last = NoCall
    /\ args.fn = "rotation_matrix"
    /\ last' = [ fn |-> "rotation_matrix", raised |-> FALSE,
                 rot_mat |-> rotation_matrix(Vec(args.axis), args.theta) ]
    /\ UNCHANGED <<args, mol, pc, ret, files>>

CallPerturbValence ==
    /\ last = NoCall
    /\ args.fn = "perturb_valence"
    /\ last' = [ fn |-> "perturb_valence",
                 res |-> perturb_valence(Vec(args.central), Vec(args.outer1),
                                         Vec(args.outer2), Vec(args.moved),
                                         args.theta, args.verbose) ]
    /\ UNCHANGED <<args, mol, pc, ret, files>>

CallPerturbImproper ==
    /\ last = NoCall
    /\ args.fn = "perturb_improper"
    /\ last' = [ fn |-> "perturb_improper",
                 res |-> perturb_improper(Vec(args.central), Vec(args.outer1),
                                          Vec(args.outer2), Vec(args.moved),
                                          args.theta, args.verbose) ]
    /\ UNCHANGED <<args, mol, pc, ret, files>>

Init ==
    /\ args \in RotationArgs \cup PerturbArgs
    /\ last = NoCall
    /\ mol = NoMol
    /\ pc = 0
    /\ ret = NoReturn
    /\ files = {}

Next == CallRotationMatrix \/ CallPerturbValence \/ CallPerturbImproper

Spec == Init /\ [][Next]_vars

(***************************************************************************)
(* The driver, lines 282-301: a batch of oemol_perturb calls on the same   *)
(* molecule with the same two atoms, each return value dropped.  An        *)
(* IndexError is not caught and ends the script.                           *)
(***************************************************************************)
Returns(r) ==
    /\ mol' = r.mol
    /\ ret' = r
    /\ files' = IF r.outcome = "returned" THEN files \cup {r.file} ELSE files
    /\ pc' = IF r.outcome = "returned" THEN pc + 1 ELSE 0

OemolPerturb ==
    /\ pc \in 1..Len(Batch)
    /\ Returns(oemol_perturb(mol, args.central, args.outer,
                             Batch[pc].improper, Batch[pc].theta))
    /\ UNCHANGED <<args, last>>

DriverInit ==
    /\ args \in DriverArgs
    /\ last = NoCall
    /\ mol \in Molecules
    /\ pc = 1
    /\ ret = NoReturn
    /\ files = {}

DriverSpec == DriverInit /\ [][OemolPerturb]_vars

(***************************************************************************)
(* What the claims are stated with.                                        *)
(***************************************************************************)
Identity ==
    << <<I(1), I(0), I(0)>>, <<I(0), I(1), I(0)>>, <<I(0), I(0), I(1)>> >>

\* M multiplied by its transpose
TimesTranspose(M) ==
    [i \in 1..3 |-> [j \in 1..3 |-> Dot(M[i], M[j])]]

Det(M) == Dot(M[1], Cross(M[2], M[3]))

Scale(k, v) == <<Mul(k, v[1]), Mul(k, v[2]), Mul(k, v[3])>>

VAdd(u, v) == <<Add(u[1], v[1]), Add(u[2], v[2]), Add(u[3], v[3])>>

IntDot(u, v) == u[1] * v[1] + u[2] * v[2] + u[3] * v[3]

\* cos and sin of the whole angle
CosDeg(theta) ==
    CASE theta = 0   -> I(1)
      [] theta = 60  -> Rat(1, 2)
      [] theta = 90  -> I(0)
      [] theta = -90 -> I(0)
      [] theta = 120 -> Rat(-1, 2)
      [] theta = 180 -> I(-1)

SinDeg(theta) ==
    CASE theta = 0   -> I(0)
      [] theta = 60  -> Surd(1, 3, 2)
      [] theta = 90  -> I(1)
      [] theta = -90 -> I(-1)
      [] theta = 120 -> Surd(1, 3, 2)
      [] theta = 180 -> I(0)

\* the unit vector along a non-zero integer axis
Unit(axis) == normalized(Vec(axis), Sqrt(I(IntDot(axis, axis))))

\* v turned by theta degrees counter-clockwise about the unit vector u,
\* for v perpendicular to u: cos(theta) v + sin(theta) (u x v)
Turned(u, v, theta) ==
    VAdd(Scale(CosDeg(theta), v), Scale(SinDeg(theta), Cross(u, v)))

Zero3 == <<0, 0, 0>>

IsPerturb == last.fn \in {"perturb_valence", "perturb_improper"}

\* the rotation axis of the perturbation called, from its arguments
ValenceAxis ==
    Cross(VSub(Vec(args.outer2), Vec(args.outer1)), VSub(Vec(args.outer2), Vec(args.moved)))

ImproperAxis == VSub(Vec(args.outer2), Vec(args.outer1))

CalledAxis == IF last.fn = "perturb_valence" THEN ValenceAxis ELSE ImproperAxis

IsZeroVec(v) == \A i \in 1..3 : IsZero(v[i])

\* C1: a rotation axis of zero magnitude (rotation_matrix with axis 0,
\* perturb_valence with collinear outer1, outer2, moved, perturb_improper
\* with outer1 = outer2) ends in an error, never in a returned matrix or
\* position with NaN components.
C1_DegenerateAxisIsAnError ==
    /\ (last.fn = "rotation_matrix" /\ args.axis = Zero3)
          => last.raised /\ ~MatHasNaN(last.rot_mat)
    /\ (IsPerturb /\ IsZeroVec(CalledAxis))
          => last.res.raised /\ ~MatHasNaN(last.res.rot_mat)
                             /\ ~VecHasNaN(last.res.atom3_rot)

\* C4: for a non-zero axis the matrix returned by rotation_matrix is a
\* proper rotation: R times its transpose is the identity and det R = +1.
C4_ProperRotation ==
    (last.fn = "rotation_matrix" /\ args.axis # Zero3)
        => /\ TimesTranspose(last.rot_mat) = Identity
           /\ Det(last.rot_mat) = I(1)

C4_Witness ==
    /\ last.fn = "rotation_matrix"
    /\ args.axis = <<1, -1, 0>>
    /\ args.theta = 60
    /\ last.rot_mat[1][3] = Surd(-1, 6, 4)

C8_ReturnedTuple ==
    (IsPerturb /\ ~IsZeroVec(CalledAxis))
        => /\ last.res.atom0 = Vec(args.central)
           /\ last.res.atom1 = Vec(args.outer1)
           /\ last.res.atom2 = Vec(args.outer2)
           /\ last.res.rot_mat = rotation_matrix(CalledAxis, args.theta)
           /\ last.res.atom3_rot = MatVec(last.res.rot_mat, Vec(args.moved))

C8_Witness ==
    /\ last.fn = "perturb_improper"
    /\ ~IsZeroVec(CalledAxis)
    /\ args.theta = 60
    /\ last.res.atom3_rot # Vec(args.moved)
    /\ ~VecHasNaN(last.res.atom3_rot)

\* what a perturbation returns: the tuple, or the error it ended in
Outcome(res) ==
    [ raised |-> res.raised, atom0 |-> res.atom0, atom1 |-> res.atom1,
      atom2 |-> res.atom2, atom3_rot |-> res.atom3_rot, rot_mat |-> res.rot_mat ]

\* the call made, made again with the other value of verbose
OtherVerbosity ==
    IF last.fn = "perturb_valence"
    THEN perturb_valence(Vec(args.central), Vec(args.outer1), Vec(args.outer2),
                         Vec(args.moved), args.theta, ~args.verbose)
    ELSE perturb_improper(Vec(args.central), Vec(args.outer1), Vec(args.outer2),
                          Vec(args.moved), args.theta, ~args.verbose)

\* C9: the diagnostic mode does not affect the result: a perturbation
\* called with verbose=True returns the same tuple (or error) as the same
\* call with verbose=False.
C9_VerboseSameResult ==
    IsPerturb => Outcome(last.res) = Outcome(OtherVerbosity)

C9_Witness ==
    /\ IsPerturb
    /\ args.verbose
    /\ last.res.printed # << >>
    /\ OtherVerbosity.printed = << >>
    /\ last.res.atom3_rot # Vec(args.moved)

(***************************************************************************)
(* The sign of a number, for comparing angles.  A number whose radicands   *)
(* are divisible by the prime p or not is A + B*sqrt(p) (times a positive  *)
(* factor) with A and B free of p; its sign is that of A and B where they  *)
(* agree, and else decided by the sign of A*A - p*B*B.                     *)
(***************************************************************************)
RECURSIVE LeastFactor(_, _)
LeastFactor(n, k) == IF n % k = 0 THEN k ELSE LeastFactor(n, k + 1)

SplitPrime(x) == LeastFactor(CHOOSE r \in DOMAIN x.t : r > 1, 2)

FreeOf(x, p) ==
    [d |-> 1, t |-> [r \in {q \in DOMAIN x.t : q % p # 0} |-> x.t[r]]]

TimesRoot(x, p) ==
    [d |-> 1, t |-> [r \in {q \div p : q \in {q \in DOMAIN x.t : q % p = 0}} |-> x.t[r * p]]]

RECURSIVE Sign(_)

SignOfParts(A, B, p, sA, sB) ==
    IF sA = 0 THEN sB
    ELSE IF sB = 0 \/ sA = sB THEN sA
    ELSE sA * Sign(Sub(Mul(A, A), Mul(I(p), Mul(B, B))))

SignSplit(A, B, p) == SignOfParts(A, B, p, Sign(A), Sign(B))

Sign(x) ==
    IF DOMAIN x.t \subseteq {1}
    THEN (IF Coef(x, 1) > 0 THEN 1 ELSE IF Coef(x, 1) < 0 THEN -1 ELSE 0)
    ELSE SignSplit(FreeOf(x, SplitPrime(x)), TimesRoot(x, SplitPrime(x)), SplitPrime(x))

Square(x) == Mul(x, x)

\* The angle between u and v equals the angle between u and w: the cosines
\* u.v/(|u||v|) and u.w/(|u||w|) have the same sign and the same square.
\* Where one of the vectors is zero there is no angle to compare.
SameAngle(u, v, w) ==
    (~IsZeroVec(u) /\ ~IsZeroVec(v) /\ ~IsZeroVec(w))
        => /\ Sign(Dot(u, v)) = Sign(Dot(u, w))
           /\ Mul(Square(Dot(u, v)), Dot(w, w)) = Mul(Square(Dot(u, w)), Dot(v, v))

\* the vector from the central atom to a position
FromCentral(x) == VSub(x, Vec(args.central))

\* C2: for outer1 # outer2, perturb_improper leaves the valence angles
\* outer1-central-moved and outer2-central-moved unchanged.
C2_ImproperKeepsValenceAngles ==
    (last.fn = "perturb_improper" /\ args.outer1 # args.outer2)
        => /\ SameAngle(FromCentral(Vec(args.outer1)), FromCentral(Vec(args.moved)),
                        FromCentral(last.res.atom3_rot))
           /\ SameAngle(FromCentral(Vec(args.outer2)), FromCentral(Vec(args.moved)),
                        FromCentral(last.res.atom3_rot))

\* the plane normals of the improper dihedral over (a0, a1, a2, a3)
Normal1(a0, a1, a2) == Cross(VSub(a0, a1), VSub(a2, a1))

Normal2(a1, a2, a3) == Cross(VSub(a2, a1), VSub(a2, a3))

\* C3: for non-collinear outer1, outer2, moved, perturb_valence leaves the
\* improper dihedral over (central, outer1, outer2, moved) unchanged: the
\* angle between cross(a0 - a1, a2 - a1) and cross(a2 - a1, a2 - a3).
C3_ValenceKeepsImproper ==
    (last.fn = "perturb_valence" /\ ~IsZeroVec(ValenceAxis))
        => SameAngle(Normal1(Vec(args.central), Vec(args.outer1), Vec(args.outer2)),
                     Normal2(Vec(args.outer1), Vec(args.outer2), Vec(args.moved)),
                     Normal2(Vec(args.outer1), Vec(args.outer2), last.res.atom3_rot))

(***************************************************************************)
(* The claims about oemol_perturb, under DriverSpec.                       *)
(***************************************************************************)
Neighbours(atom) == {n \in Atoms : {atom, n} \in mol.bonds}

\* C6: the two reference positions oemol_perturb passes to the perturbation
\* as outer1 and outer2 are positions of neighbours of the central atom
\* other than the moving atom: neither is the position of outer_atom.
C6_ReferencesExcludeMovingAtom ==
    ret.outcome = "returned"
        => /\ ret.outer1 # mol.coords[args.outer]
           /\ ret.outer2 # mol.coords[args.outer]

\* C7: with fewer than three neighbours at the central atom oemol_perturb
\* ends in an error: no perturbation is called, no coordinate is written,
\* no file is produced.
C7_TooFewNeighboursIsAnError ==
    (args.fn = "driver" /\ Cardinality(Neighbours(args.central)) < 3)
        => /\ ret.outcome \in {"none", "IndexError"}
           /\ files = {}

\* C10: oemol_perturb never modifies the molecule it is given: whatever
\* calls were made, every atom of the molecule is where it was at the
\* start, each call rotates the original position of the moving atom, and
\* the returned copy differs from the molecule only in that atom's position.
C10_MoleculeUntouched ==
    args.fn = "driver"
        => /\ mol.coords = Positions
           /\ ret.outcome = "returned"
                 => /\ ret.cmol.names = mol.names
                    /\ ret.cmol.bonds = mol.bonds
                    /\ \A a \in Atoms \ {args.outer} :
                          ret.cmol.coords[a] = Positions[a]
                    /\ ret.cmol.coords[args.outer]
                          = MatVec(rotation_matrix(
                                      IF ret.fn = "perturb_improper"
                                      THEN VSub(ret.outer2, ret.outer1)
                                      ELSE Cross(VSub(ret.outer2, ret.outer1),
                                                 VSub(ret.outer2, Positions[args.outer])),
                                      ret.file[1]),
                                   Positions[args.outer])

C10_Witness ==
    /\ args.fn = "driver"
    /\ pc = 4
    /\ ret.outcome = "returned"
    /\ ret.file[1] = 120
    /\ ~VecHasNaN(ret.cmol.coords[args.outer])
    /\ ret.cmol.coords[args.outer] # mol.coords[args.outer]
    /\ mol.coords = Positions

====
